---- MODULE Spec2Model ----
(***************************************************************************)
(* pkgcore DepSet engine (pkgcore/ebuild/conditionals.py): the pure-python *)
(* DepSet.parse loop, the lazily cached views node_conds /                 *)
(* has_conditionals / known_conditionals (read in one step under Spec,     *)
(* slot access by slot access by two threads under RaceSpec),              *)
(* evaluate_depset and stringify_boolean with and without a domain.        *)
(*                                                                         *)
(* Strings are sequences of one-character strings, so that split, join,    *)
(* k[-1], c[0], c[1:-1] and "|" in k are computed and not assumed.         *)
(***************************************************************************)
EXTENDS Naturals, Sequences, FiniteSets

VARIABLES
    dep_str,                      \* parse argument: the string being parsed
    element_class,                \* parse argument
    operators,                    \* parse argument (None resolved at line 97-98)
    element_func,                 \* parse argument: None, or the caller's constructor
    allow_src_uri_file_renames,   \* parse argument
    words,                        \* the token iterator: tokens not yet consumed
    k,                            \* loop variable of "for k in words": None, or a token
    depsets,                      \* stack of frames (pending-children lists)
    raw_conditionals,             \* stack of the tags that opened the frames
    node_conds,                   \* parse local: a conditional group was closed
    pc,                           \* "start", "loop", "done", "raised"
    raised,                       \* the exception parse ended with, or None
    heap,                         \* the DepSet objects alive: <<parsed, latest result>>
    evaluated,                    \* the latest evaluate_depset call and what it returned
    seen,                         \* per object and view: what the latest read returned
    readers                       \* the threads reading a view of object 1, step by step

vars == <<dep_str, element_class, operators, element_func, allow_src_uri_file_renames, words, k,
          depsets, raw_conditionals, node_conds, pc, raised, heap, evaluated, seen,
          readers>>

parse_locals == <<words, k, depsets, raw_conditionals, node_conds>>
parse_args == <<dep_str, element_class, operators, element_func, allow_src_uri_file_renames>>

-----------------------------------------------------------------------------
(* Characters, tokens, strings *)

None == [type |-> "None"]

SP == " "

\* the python string literal of a token, as its characters
LPAREN == <<"(">>
RPAREN == <<")">>
OROP == <<"|", "|">>
ANDOP == <<>>
ARROW == <<"-", ">">>

Last(s) == s[Len(s)]
Front(s) == SubSeq(s, 1, Len(s) - 1)

\* x in s, for a character x and a string s
InStr(x, s) == \E i \in 1..Len(s) : s[i] = x

RECURSIVE SplitFrom(_, _, _)
SplitFrom(s, cur, acc) ==
    IF s = <<>> THEN (IF cur = <<>> THEN acc ELSE Append(acc, cur))
    ELSE IF Head(s) = SP
         THEN SplitFrom(Tail(s), <<>>, IF cur = <<>> THEN acc ELSE Append(acc, cur))
         ELSE SplitFrom(Tail(s), Append(cur, Head(s)), acc)

\* dep_str.split(): the maximal runs of non-whitespace characters
Split(s) == SplitFrom(s, <<>>, <<>>)

RECURSIVE Join(_, _)
\* sep.join(l)
Join(sep, l) ==
    IF l = <<>> THEN <<>>
    ELSE IF Len(l) = 1 THEN l[1]
    ELSE l[1] \o sep \o Join(sep, Tail(l))

-----------------------------------------------------------------------------
(* Tree nodes *)

\* element_func(k) and element_func(k, k3): the leaf is opaque and is known by
\* the arguments it was constructed from
\* slot and subslot are the fields stringify_boolean may set, lines 339-340
Leaf(args) == [kind |-> "leaf", args |-> args, slot |-> None, subslot |-> None]

\* operators[tag](*children): a boolean restriction of the class the map names
Group(cls, children) == [kind |-> "group", cls |-> cls, restrictions |-> children]

\* values.ContainmentMatch(flag, negate=...)
ContainmentMatch(val, negate) == [cls |-> "ContainmentMatch", vals |-> {val}, negate |-> negate]

\* packages.Conditional("use", c, payload)
Conditional(attr, restriction, payload) ==
    [kind |-> "cond", attr |-> attr, restriction |-> restriction, payload |-> payload]

\* DepSet.__init__
DepSet(restrictions, elem_class, nc, known) ==
    [restrictions |-> restrictions, element_class |-> elem_class,
     _node_conds |-> nc, _known_conditionals |-> known]

\* frozenset(S)
FrozenSet(S) == [type |-> "frozenset", elems |-> S]

\* what a property or a call returned
Returned(v) == [type |-> "returned", v |-> v]

\* no view of the object has been read
Unseen == [has_conditionals |-> None, node_conds |-> None, known_conditionals |-> None]

\* the values of the _node_conds slot: True, False, or the computed dict
PyBool(b) == [tag |-> "bool", b |-> b, d |-> <<>>]
PyDict(d) == [tag |-> "dict", b |-> FALSE, d |-> d]

-----------------------------------------------------------------------------
(* Exceptions *)

\* ParseError(dep_str) / ParseError(dep_str, token): token is None when absent
\* and an exception record when the constructor was handed an exception
ParseError(s, token) == [type |-> "ParseError", dep_str |-> s, token |-> token, cause |-> None]

\* raise_from(ParseError(dep_str, e)): the caught exception is both the second
\* argument and the cause
ParseErrorFrom(s, e) == [type |-> "ParseError", dep_str |-> s, token |-> e, cause |-> e]

IndexError == [type |-> "IndexError"]
StopIteration == [type |-> "StopIteration"]
\* an exception class of the leaf type, derived from Exception
MalformedAtom == [type |-> "MalformedAtom"]
ValueError == [type |-> "ValueError"]

\* a string value where None may stand as well: k, and the token of a ParseError
Tok(t) == [type |-> "token", chars |-> t]

-----------------------------------------------------------------------------
(* Parse inputs *)

\* longest input of the exhaustive family, in tokens
MaxTokens == 3

Flag == <<"x">>
LeafA == <<"a">>
LeafB == <<"b">>
CondX == <<"x", "?">>
NotCondX == <<"!", "x", "?">>
BarLeaf == <<"a", "|", "b">>
BarCond == <<"a", "|", "b", "?">>
SlotA == <<"a", ":", "=">>
SlotB == <<"b", ":", "=">>

Tokens == {LPAREN, RPAREN, OROP, CondX, NotCondX, LeafA, LeafB, BarLeaf, BarCond, ARROW}

\* operators=None gives the default map (line 98); the second map is a caller's
\* that names no "" operator
DefaultOperators == [t \in {OROP, ANDOP} |-> IF t = OROP THEN "OrRestriction" ELSE "AndRestriction"]
OrOnlyOperators == [t \in {OROP} |-> "OrRestriction"]
OperatorMaps == {DefaultOperators, OrOnlyOperators}

\* element_class: two classes and one object that is no class
ElementClasses == {"atom", "fetchable", "not_a_class"}
IsType(c) == c \in {"atom", "fetchable"}

\* the whitespace between tokens: single spaces, or doubled with a leading
\* and a trailing blank
Spacings == {"canonical", "loose"}
Spaced(ws, spacing) ==
    IF spacing = "canonical" THEN Join(<<SP>>, ws)
    ELSE <<SP>> \o Join(<<SP, SP>>, ws) \o <<SP>>

SeqsUpTo(S, n) == UNION {[1..m -> S] : m \in 0..n}

\* every token sequence of at most n tokens, under the given argument choices
CallsUpTo(n, spacings, classes) ==
    {[dep_str |-> Spaced(ws, sp), element_class |-> ec, operators |-> ops,
      element_func |-> None, renames |-> rn] :
        ws \in SeqsUpTo(Tokens, n), sp \in spacings, ec \in classes,
        ops \in OperatorMaps, rn \in BOOLEAN}

\* the sequences of at most MaxTokens tokens in canonical spacing for atom, and
\* the shorter ones in every spacing for every element_class
ShortCalls ==
    CallsUpTo(MaxTokens, {"canonical"}, {"atom"})
        \cup CallsUpTo(MaxTokens - 1, Spacings, ElementClasses)

\* well-formed expressions: leaves, and groups of one or two items
Openers == {<<LPAREN>>, <<OROP, LPAREN>>, <<CondX, LPAREN>>, <<NotCondX, LPAREN>>}
Wrapped(openers, items) ==
    {o \o body \o <<RPAREN>> : o \in openers,
                                body \in items \cup {i \o j : i \in items, j \in items}}
Items0(leaves) == {<<l>> : l \in leaves}
Items1(leaves) == Items0(leaves) \cup Wrapped(Openers, Items0(leaves))
Items2(leaves) == Items0(leaves) \cup Wrapped(Openers, Items1(leaves))

\* nested inputs, parsed with the default arguments: two items nested once, one
\* item nested twice over one leaf, and the groups a tag with a "|" opens
NestedCalls ==
    {[dep_str |-> Spaced(ws, "canonical"), element_class |-> "atom",
      operators |-> DefaultOperators, element_func |-> None, renames |-> FALSE] :
        ws \in {i \o j : i \in Items1({LeafA, LeafB}), j \in Items1({LeafA})}
               \cup Items2({LeafA})
               \cup Wrapped({<<BarCond, LPAREN>>}, Items0({LeafA, LeafB}))}

\* element_func: a caller's constructor that raises on one token
Function(fails_on, raises) == [type |-> "function", fails_on |-> fails_on, raises |-> raises]
ElementFuncs == {Function(LeafB, e) : e \in {MalformedAtom, IndexError, StopIteration}}

\* inputs with the token such a constructor raises on
FailingCalls ==
    {[dep_str |-> Spaced(ws, "canonical"), element_class |-> "atom",
      operators |-> DefaultOperators, element_func |-> f, renames |-> rn] :
        ws \in {<<LeafB>>, <<LeafA, LeafB>>, <<LeafB, ARROW, LeafA>>, <<LeafA, ARROW, LeafB>>,
                <<CondX, LPAREN, LeafB, RPAREN>>, <<CondX, LPAREN, LeafA, RPAREN>>},
        f \in ElementFuncs, rn \in BOOLEAN}

\* inputs with leaves that lock their slot
SlotCalls ==
    {[dep_str |-> Spaced(ws, "canonical"), element_class |-> ec,
      operators |-> DefaultOperators, element_func |-> None, renames |-> FALSE] :
        ws \in {<<SlotA>>, <<SlotA, SlotB>>, <<CondX, LPAREN, SlotA, RPAREN, LeafA>>},
        ec \in {"atom", "fetchable"}}

ParseCalls == ShortCalls \cup NestedCalls \cup FailingCalls \cup SlotCalls

-----------------------------------------------------------------------------
(* DepSet.parse, lines 53-198, python branch (parse_depset is None) *)

\* the threads that read a view of the parsed tree
Threads == {1, 2}

\* a thread that has not called a property yet
Idle == [pc |-> "idle", nc |-> <<>>, always_required |-> {}, kc |-> {}, ret |-> None]

\* parse is called with one of calls; nothing else has happened
InitWith(calls) ==
    /\ \E call \in calls :
        /\ dep_str = call.dep_str
        /\ element_class = call.element_class
        /\ operators = call.operators
        /\ element_func = call.element_func
        /\ allow_src_uri_file_renames = call.renames
    /\ words = <<>>
    /\ k = None
    /\ depsets = <<>>
    /\ raw_conditionals = <<>>
    /\ node_conds = FALSE
    /\ pc = "start"
    /\ raised = None
    /\ heap = <<>>
    /\ evaluated = None
    /\ seen = <<>>
    /\ readers = [t \in Threads |-> Idle]

Init == InitWith(ParseCalls)

\* the function unwinds with an exception: its frame is kept for the traceback
Raise(e) ==
    /\ pc' = "raised"
    /\ raised' = e
    /\ UNCHANGED <<heap, evaluated, seen, readers, parse_args>>

\* lines 69-109: the argument check and the set-up of the loop
ParseBegin ==
    /\ pc = "start"
    /\ IF ~IsType(element_class)
       THEN /\ Raise(ValueError)
            /\ UNCHANGED parse_locals
       ELSE /\ words' = Split(dep_str)
            /\ depsets' = << <<>> >>
            /\ raw_conditionals' = <<>>
            /\ node_conds' = FALSE
            /\ k' = None
            /\ pc' = "loop"
            /\ UNCHANGED <<raised, heap, evaluated, seen, readers, parse_args>>

\* only the unmatched ")" is refused, the empty frame is closed
CloseIsErrorUnmatchedOnly(frames, tags) == tags = <<>>

\* line 116: the ")" closes nothing, or closes a frame with no children
CloseIsError(frames, tags) == Last(frames) = <<>> \/ tags = <<>>

\* the "!" of a negated tag is taken for a part of the flag name
UseFlagKeepsMark(c) ==
    IF c[1] = "!"
    THEN ContainmentMatch(Front(c), TRUE)
    ELSE ContainmentMatch(Front(c), FALSE)

\* lines 126-130: the restriction of a conditional tag c
UseFlag(c) ==
    IF c[1] = "!"
    THEN ContainmentMatch(SubSeq(c, 2, Len(c) - 1), TRUE)
    ELSE ContainmentMatch(Front(c), FALSE)

\* an operator frame with one child gets its group like every other
ClosedFrameAlwaysWraps(tag, children, ops) ==
    IF tag \in DOMAIN ops
    THEN Group(ops[tag], children)
    ELSE Conditional("use", UseFlag(tag), children)

\* lines 118-133: the node a ")" adds to the parent frame
ClosedFrame(tag, children, ops) ==
    IF tag \in DOMAIN ops
    THEN IF Len(children) = 1 THEN children[1] ELSE Group(ops[tag], children)
    ELSE Conditional("use", UseFlag(tag), children)

\* lines 112-136: k == ")"
ParseClose ==
    /\ pc = "loop" /\ words # <<>> /\ Head(words) = RPAREN
    /\ k' = Tok(Head(words))
    /\ IF CloseIsError(depsets, raw_conditionals)
       THEN \* line 117, caught at line 184 and wrapped at line 185
            /\ Raise(ParseErrorFrom(dep_str, ParseError(dep_str, None)))
            /\ words' = Tail(words)
            /\ UNCHANGED <<depsets, raw_conditionals, node_conds>>
       ELSE IF Last(raw_conditionals) \notin DOMAIN operators /\ Last(raw_conditionals) = <<>>
       THEN \* line 127: c[0] of the empty tag, re-raised at line 179
            /\ Raise(IndexError)
            /\ words' = Tail(words)
            /\ node_conds' = TRUE
            /\ UNCHANGED <<depsets, raw_conditionals>>
       ELSE /\ depsets' =
                LET n == Len(depsets)
                    node == ClosedFrame(Last(raw_conditionals), depsets[n], operators)
                IN  Append(SubSeq(depsets, 1, n - 2), Append(depsets[n - 1], node))
            /\ node_conds' = (node_conds \/ Last(raw_conditionals) \notin DOMAIN operators)
            /\ raw_conditionals' = Front(raw_conditionals)
            /\ words' = Tail(words)
            /\ UNCHANGED <<pc, raised, heap, evaluated, seen, readers, parse_args>>

\* the tag is pushed and no frame for it
OpenNoFrame(frames) == frames

\* lines 141 and 153: depsets.append([])
OpenFrame(frames) == Append(frames, <<>>)

\* lines 138-142: k == "("
ParseOpen ==
    /\ pc = "loop" /\ words # <<>> /\ Head(words) = LPAREN
    /\ k' = Tok(ANDOP)
    /\ depsets' = OpenFrame(depsets)
    /\ raw_conditionals' = Append(raw_conditionals, ANDOP)
    /\ words' = Tail(words)
    /\ UNCHANGED <<node_conds, pc, raised, heap, evaluated, seen, readers, parse_args>>

\* line 144
IsTag(t, ops) == Last(t) = "?" \/ t \in DOMAIN ops

\* lines 144-154: a use conditional or an operator, and the token after it
ParseTag ==
    /\ pc = "loop" /\ words # <<>>
    /\ Head(words) \notin {RPAREN, LPAREN}
    /\ IsTag(Head(words), operators)
    /\ k' = Tok(Head(words))
    /\ UNCHANGED node_conds
    /\ IF Len(words) = 1
       THEN \* words.next() raises StopIteration: lines 180-183
            /\ Raise(ParseError(dep_str, Tok(Head(words))))
            /\ words' = <<>>
            /\ UNCHANGED <<depsets, raw_conditionals>>
       ELSE IF words[2] # LPAREN
       THEN \* line 150, caught at line 184 and wrapped at line 185
            /\ Raise(ParseErrorFrom(dep_str, ParseError(dep_str, Tok(words[2]))))
            /\ words' = Tail(Tail(words))
            /\ UNCHANGED <<depsets, raw_conditionals>>
       ELSE /\ depsets' = OpenFrame(depsets)
            /\ raw_conditionals' = Append(raw_conditionals, Head(words))
            /\ words' = Tail(Tail(words))
            /\ UNCHANGED <<pc, raised, heap, evaluated, seen, readers, parse_args>>

\* lines 156-157: "|" in k
ParseBar ==
    /\ pc = "loop" /\ words # <<>>
    /\ Head(words) \notin {RPAREN, LPAREN}
    /\ ~IsTag(Head(words), operators)
    /\ InStr("|", Head(words))
    /\ k' = Tok(Head(words))
    /\ Raise(ParseErrorFrom(dep_str, ParseError(dep_str, Tok(Head(words)))))
    /\ words' = Tail(words)
    /\ UNCHANGED <<depsets, raw_conditionals, node_conds>>

\* depsets[-1].append(node)
AppendToTop(stack, node) ==
    Append(Front(stack), Append(Last(stack), node))

\* element_func(*args) raises: element_func is the caller's and args names the
\* token it raises on (element_func=None is element_class, line 74)
ElementFuncRaises(func, args) == func # None /\ args[1] = func.fails_on

\* lines 175-185: what parse raises when an exception e leaves the loop body
\* at token t
Handled(e, s, t) ==
    IF e = IndexError THEN e
    ELSE IF e = StopIteration THEN ParseError(s, Tok(t))
    ELSE ParseErrorFrom(s, e)

\* depsets[-1].append(element_func(*args)) at token t
AppendElement(t, args) ==
    IF ElementFuncRaises(element_func, args)
    THEN /\ Raise(Handled(element_func.raises, dep_str, t))
         /\ UNCHANGED depsets
    ELSE /\ depsets' = AppendToTop(depsets, Leaf(args))
         /\ UNCHANGED <<pc, raised, heap, evaluated, seen, readers, parse_args>>

\* lines 158-170: a leaf under allow_src_uri_file_renames, with its lookahead
ParseRename ==
    /\ pc = "loop" /\ words # <<>>
    /\ Head(words) \notin {RPAREN, LPAREN}
    /\ ~IsTag(Head(words), operators)
    /\ ~InStr("|", Head(words))
    /\ allow_src_uri_file_renames
    /\ k' = Tok(Head(words))
    /\ UNCHANGED <<raw_conditionals, node_conds>>
    /\ IF Len(words) = 1 \/ words[2] # ARROW
       THEN \* lines 161-166: no "->" follows; a token read ahead is pushed back
            /\ AppendElement(Head(words), <<Head(words)>>)
            /\ words' = Tail(words)
       ELSE IF Len(words) = 2
       THEN \* line 168: words.next() raises StopIteration: lines 180-183
            /\ Raise(ParseError(dep_str, Tok(Head(words))))
            /\ words' = <<>>
            /\ UNCHANGED depsets
       ELSE /\ AppendElement(Head(words), <<Head(words), words[3]>>)
            /\ words' = SubSeq(words, 4, Len(words))

\* lines 171-173: a leaf
ParseElement ==
    /\ pc = "loop" /\ words # <<>>
    /\ Head(words) \notin {RPAREN, LPAREN}
    /\ ~IsTag(Head(words), operators)
    /\ ~InStr("|", Head(words))
    /\ ~allow_src_uri_file_renames
    /\ k' = Tok(Head(words))
    /\ AppendElement(Head(words), <<Head(words)>>)
    /\ words' = Tail(words)
    /\ UNCHANGED <<raw_conditionals, node_conds>>

\* a tree is returned whatever frames are left open
ClosuresRequiredNever(frames) == FALSE

\* line 188: frames other than the root are left open
ClosuresRequired(frames) == Len(frames) # 1

\* lines 187-198: the iterator is exhausted (transitive_use_atoms is False)
ParseEnd ==
    /\ pc = "loop" /\ words = <<>>
    /\ IF ClosuresRequired(depsets)
       THEN /\ Raise(ParseError(dep_str, None))
            /\ UNCHANGED parse_locals
       ELSE /\ heap' = <<DepSet(depsets[1], element_class, PyBool(node_conds), None)>>
            /\ seen' = <<Unseen>>
            /\ pc' = "done"
            /\ UNCHANGED <<raised, evaluated, readers, parse_args, parse_locals>>

Parse ==
    \/ ParseBegin
    \/ ParseClose
    \/ ParseOpen
    \/ ParseTag
    \/ ParseBar
    \/ ParseRename
    \/ ParseElement
    \/ ParseEnd

-----------------------------------------------------------------------------
(* The views of a DepSet, lines 226-289 *)

IsKind(node, kind) == node # None /\ node.kind = kind

\* the payload is put in front of the chain with nothing after it
PayloadOnly(payload) == payload

\* line 233: list(cur_node.payload) + [None]
PayloadThenNone(payload) == payload \o <<None>>

RECURSIVE cond_nodes_walk(_, _, _, _)
\* lines 228-242, one iteration of "for cur_node in new_set" per unfolding:
\* new_set is the expandable chain, out the pairs yielded so far. The walk
\* ends when the chain is used up, or with the IndexError of a pop from the
\* empty conditions_stack
cond_nodes_walk(new_set, conditions_stack, yield_non_conditionals, out) ==
    IF new_set = <<>>
    THEN [out |-> out, conditions_stack |-> conditions_stack, raised |-> None]
    ELSE LET cur_node == Head(new_set)
             rest == Tail(new_set)
         IN  IF IsKind(cur_node, "cond")
             THEN cond_nodes_walk(PayloadThenNone(cur_node.payload) \o rest,
                                  Append(conditions_stack, cur_node.restriction),
                                  yield_non_conditionals, out)
             ELSE IF IsKind(cur_node, "group")
             THEN cond_nodes_walk(cur_node.restrictions \o rest, conditions_stack,
                                  yield_non_conditionals, out)
             ELSE IF cur_node = None
             THEN IF conditions_stack = <<>>
                  THEN [out |-> out, conditions_stack |-> conditions_stack,
                        raised |-> IndexError]
                  ELSE cond_nodes_walk(rest, Front(conditions_stack),
                                       yield_non_conditionals, out)
             ELSE IF conditions_stack # <<>> \/ yield_non_conditionals
             THEN cond_nodes_walk(rest, conditions_stack, yield_non_conditionals,
                                  Append(out, <<cur_node, conditions_stack>>))
             ELSE cond_nodes_walk(rest, conditions_stack, yield_non_conditionals, out)

\* lines 226-242: the pairs the generator yields
find_cond_nodes(new_set, conditions_stack, yield_non_conditionals, out) ==
    cond_nodes_walk(new_set, conditions_stack, yield_non_conditionals, out).out

\* values.AndRestriction(*restrictions)
ValuesAnd(restrictions) == [cls |-> "AndRestriction", restrictions |-> restrictions]

\* lines 257-260
CurrentOf(restrictions) ==
    IF Len(restrictions) = 1 THEN restrictions[1] ELSE ValuesAnd(restrictions)

\* the entry takes the place of the entries the leaf had
SetDefaultOverwrite(nc, payload, current) ==
    [p \in DOMAIN nc \cup {payload} |-> IF p = payload THEN <<current>> ELSE nc[p]]

\* nc.setdefault(payload, []).append(current), line 262
SetDefaultAppend(nc, payload, current) ==
    [p \in DOMAIN nc \cup {payload} |->
        IF p = payload
        THEN (IF p \in DOMAIN nc THEN Append(nc[p], current) ELSE <<current>>)
        ELSE nc[p]]

RECURSIVE CollectNodeConds(_, _, _)
\* lines 253-262: the loop over the yielded pairs; returns nc and always_required
CollectNodeConds(pairs, nc, always_required) ==
    IF pairs = <<>> THEN [nc |-> nc, always_required |-> always_required]
    ELSE LET payload == Head(pairs)[1]
             restrictions == Head(pairs)[2]
         IN  IF restrictions = <<>>
             THEN CollectNodeConds(Tail(pairs), nc, always_required \cup {payload})
             ELSE CollectNodeConds(Tail(pairs),
                                   SetDefaultAppend(nc, payload, CurrentOf(restrictions)),
                                   always_required)

\* the always required leaves are left in the dict
KeepAlwaysRequired(nc, always_required) == nc

\* lines 264-266
DropAlwaysRequired(nc, always_required) ==
    [p \in DOMAIN nc \ always_required |-> nc[p]]

\* lines 249-268: the dict computed on the first read of a tree parsed with
\* conditionals
ComputeNodeConds(restrictions) ==
    LET got == CollectNodeConds(find_cond_nodes(restrictions, <<>>, TRUE, <<>>),
                                <<>>, {})
    IN  DropAlwaysRequired(got.nc, got.always_required)

\* lines 244-272: the value of the _node_conds slot after a read of node_conds
NodeCondsSlot(self) ==
    IF self._node_conds = PyBool(FALSE) THEN PyDict(<<>>)
    ELSE IF self._node_conds = PyBool(TRUE) THEN PyDict(ComputeNodeConds(self.restrictions))
    ELSE self._node_conds

\* what a read of node_conds returns
node_conds_of(self) == NodeCondsSlot(self).d

\* lines 274-276: bool(self._node_conds)
has_conditionals(self) ==
    IF self._node_conds.tag = "bool" THEN self._node_conds.b
    ELSE DOMAIN self._node_conds.d # {}

\* the flags are taken from the conditions node_conds keeps
KnownFromNodeConds(restrictions) ==
    LET nc == ComputeNodeConds(restrictions)
        Vals(c) == IF c.cls = "ContainmentMatch" THEN c.vals
                   ELSE UNION {c.restrictions[j].vals : j \in 1..Len(c.restrictions)}
    IN  UNION {UNION {Vals(nc[p][j]) : j \in 1..Len(nc[p])} : p \in DOMAIN nc}

\* lines 283-286
ComputeKnownConditionals(restrictions) ==
    LET pairs == find_cond_nodes(restrictions, <<>>, FALSE, <<>>)
    IN  UNION {UNION {pairs[i][2][j].vals : j \in 1..Len(pairs[i][2])} : i \in 1..Len(pairs)}

\* lines 278-289: what a read of known_conditionals returns
known_conditionals_of(self) ==
    IF self._node_conds = PyBool(FALSE) THEN {}
    ELSE IF self._known_conditionals = None THEN ComputeKnownConditionals(self.restrictions)
    ELSE self._known_conditionals.elems

\* the _known_conditionals slot after a read of known_conditionals
KnownConditionalsSlot(self) ==
    IF self._node_conds = PyBool(FALSE) THEN self._known_conditionals
    ELSE IF self._known_conditionals = None
    THEN [type |-> "frozenset", elems |-> ComputeKnownConditionals(self.restrictions)]
    ELSE self._known_conditionals

\* a read of the node_conds property of object i
NodeConds(i) ==
    /\ pc = "done" /\ i \in 1..Len(heap)
    /\ heap' = [heap EXCEPT ![i]._node_conds = NodeCondsSlot(heap[i])]
    /\ seen' = [seen EXCEPT ![i].node_conds = Returned(node_conds_of(heap[i]))]
    /\ UNCHANGED <<evaluated, readers, pc, raised, parse_args, parse_locals>>

\* a read of the has_conditionals property of object i
HasConditionals(i) ==
    /\ pc = "done" /\ i \in 1..Len(heap)
    /\ seen' = [seen EXCEPT ![i].has_conditionals = Returned(has_conditionals(heap[i]))]
    /\ UNCHANGED <<heap, evaluated, readers, pc, raised, parse_args, parse_locals>>

\* a read of the known_conditionals property of object i
KnownConditionals(i) ==
    /\ pc = "done" /\ i \in 1..Len(heap)
    /\ heap' = [heap EXCEPT ![i]._known_conditionals = KnownConditionalsSlot(heap[i])]
    /\ seen' = [seen EXCEPT ![i].known_conditionals =
                                 Returned(known_conditionals_of(heap[i]))]
    /\ UNCHANGED <<evaluated, readers, pc, raised, parse_args, parse_locals>>

-----------------------------------------------------------------------------
(* The properties node_conds and known_conditionals of object 1 read by     *)
(* threads: one step per read or write of a slot of the object; what a      *)
(* thread computes in between is in its locals.                             *)

reader_frame == <<evaluated, seen, pc, raised, parse_args, parse_locals>>

\* the dict is stored as soon as the loop of line 253 has filled it
StoresNodeCondsEarly(label) == label \in {"nc253", "nc264", "nc270"}

\* line 270 is the one store of the computed dict
StoresNodeConds(label) == label = "nc270"

\* thread t ends its step at label with locals nc and always_required; the dict
\* is one object, so once stored the slot shows what the thread does to it
NodeCondsGoto(t, label, nc, always_required, at) ==
    /\ readers' = [readers EXCEPT ![t].pc = label, ![t].nc = nc,
                                   ![t].always_required = always_required]
    /\ heap' = IF StoresNodeConds(at)
               THEN [heap EXCEPT ![1]._node_conds = PyDict(nc)]
               ELSE heap

\* thread t calls a property of object 1
ReaderCall(t) ==
    /\ pc = "done" /\ readers[t].pc = "idle"
    /\ \E label \in {"nc246", "kc280"} : readers' = [readers EXCEPT ![t].pc = label]
    /\ UNCHANGED <<heap, reader_frame>>

\* lines 246-272, one step of thread t
ReaderNodeConds(t) ==
    LET self == heap[1]
        r == readers[t]
    IN  /\ pc = "done"
        /\ UNCHANGED reader_frame
        /\ \/ /\ r.pc = "nc246"
              /\ readers' = [readers EXCEPT ![t].pc =
                                IF self._node_conds = PyBool(FALSE) THEN "nc247" ELSE "nc248"]
              /\ UNCHANGED heap
           \/ /\ r.pc = "nc247"
              /\ heap' = [heap EXCEPT ![1]._node_conds = PyDict(<<>>)]
              /\ readers' = [readers EXCEPT ![t].pc = "nc272"]
           \/ /\ r.pc = "nc248"
              /\ readers' = [readers EXCEPT ![t].pc =
                                IF self._node_conds = PyBool(TRUE) THEN "nc253" ELSE "nc272"]
              /\ UNCHANGED heap
           \/ /\ r.pc = "nc253"
              /\ LET got == CollectNodeConds(
                                find_cond_nodes(self.restrictions, <<>>, TRUE, <<>>), <<>>, {})
                 IN  NodeCondsGoto(t, "nc264", got.nc, got.always_required, "nc253")
           \/ /\ r.pc = "nc264"
              /\ NodeCondsGoto(t, "nc270", DropAlwaysRequired(r.nc, r.always_required),
                               r.always_required, "nc264")
           \/ /\ r.pc = "nc270"
              /\ NodeCondsGoto(t, "nc272", r.nc, r.always_required, "nc270")
           \/ /\ r.pc = "nc272"
              /\ readers' = [readers EXCEPT ![t].pc = "returned",
                                             ![t].ret = Returned(self._node_conds)]
              /\ UNCHANGED heap

\* lines 280-289, one step of thread t
ReaderKnownConditionals(t) ==
    LET self == heap[1]
        r == readers[t]
    IN  /\ pc = "done"
        /\ UNCHANGED reader_frame
        /\ \/ /\ r.pc = "kc280"
              /\ readers' = IF self._node_conds = PyBool(FALSE)
                            THEN [readers EXCEPT ![t].pc = "returned",
                                                 ![t].ret = Returned(FrozenSet({}))]
                            ELSE [readers EXCEPT ![t].pc = "kc282"]
              /\ UNCHANGED heap
           \/ /\ r.pc = "kc282"
              /\ readers' = [readers EXCEPT ![t].pc =
                                IF self._known_conditionals = None THEN "kc283" ELSE "kc289"]
              /\ UNCHANGED heap
           \/ /\ r.pc = "kc283"
              /\ readers' = [readers EXCEPT ![t].pc = "kc287",
                                             ![t].kc = ComputeKnownConditionals(self.restrictions)]
              /\ UNCHANGED heap
           \/ /\ r.pc = "kc287"
              /\ heap' = [heap EXCEPT ![1]._known_conditionals = FrozenSet(r.kc)]
              /\ readers' = [readers EXCEPT ![t].pc = "returned",
                                             ![t].ret = Returned(FrozenSet(r.kc))]
           \/ /\ r.pc = "kc289"
              /\ readers' = [readers EXCEPT ![t].pc = "returned",
                                             ![t].ret = Returned(self._known_conditionals)]
              /\ UNCHANGED heap

-----------------------------------------------------------------------------
(* evaluate_depset, lines 206-224 *)

Flags == {Flag}

\* cond_dict: a container of the enabled flags
CondDicts == SUBSET Flags

\* tristate_filter: None, or a container of flags
TristateFilters == {None} \cup {FrozenSet(S) : S \in SUBSET Flags}

\* whether a Conditional's payload is kept
Enabled(restriction, cond_dict, tristate_filter) ==
    \/ tristate_filter # None /\ \E f \in restriction.vals : f \notin tristate_filter.elems
    \/ (restriction.vals \subseteq cond_dict) # restriction.negate

RECURSIVE evaluate_conditionals(_, _, _)
\* the conditionals of a sequence of nodes resolved: a leaf is kept, a group
\* keeps its class and has its children resolved, a Conditional is replaced by
\* its resolved payload or by nothing
evaluate_conditionals(nodes, cond_dict, tristate_filter) ==
    IF nodes = <<>> THEN <<>>
    ELSE LET node == Head(nodes)
             rest == evaluate_conditionals(Tail(nodes), cond_dict, tristate_filter)
         IN  IF node.kind = "cond"
             THEN (IF Enabled(node.restriction, cond_dict, tristate_filter)
                   THEN evaluate_conditionals(node.payload, cond_dict, tristate_filter)
                   ELSE <<>>) \o rest
             ELSE IF node.kind = "group"
             THEN <<Group(node.cls,
                          evaluate_conditionals(node.restrictions, cond_dict, tristate_filter))>>
                  \o rest
             ELSE <<node>> \o rest

\* the result inherits the _node_conds slot of the tree it was made from
EvaluatedDepSetKeepsSlot(self, results) ==
    DepSet(results, self.element_class, self._node_conds, None)

\* line 224: the DepSet built from the results
EvaluatedDepSet(self, results) ==
    DepSet(results, self.element_class, PyBool(FALSE), None)

\* lines 216-224: what the call returns: self itself, or a new object
evaluate_depset(self, cond_dict, tristate_filter) ==
    IF ~has_conditionals(self)
    THEN [is_self |-> TRUE, obj |-> self]
    ELSE [is_self |-> FALSE,
          obj |-> EvaluatedDepSet(self,
                     evaluate_conditionals(self.restrictions, cond_dict, tristate_filter))]

\* object i is evaluated; a new DepSet takes the place of the previous result
EvaluateDepset(i, cond_dict, tristate_filter) ==
    /\ pc = "done" /\ i \in 1..Len(heap)
    /\ LET r == evaluate_depset(heap[i], cond_dict, tristate_filter)
           \* line 216 reads self.has_conditionals
           read == [seen EXCEPT ![i].has_conditionals = Returned(has_conditionals(heap[i]))]
       IN  /\ heap' = IF r.is_self THEN heap ELSE <<heap[1], r.obj>>
           /\ seen' = IF r.is_self THEN read ELSE <<read[1], Unseen>>
           /\ evaluated' = [self |-> i, cond_dict |-> cond_dict,
                            tristate_filter |-> tristate_filter,
                            ret |-> IF r.is_self THEN i ELSE 2]
    /\ UNCHANGED <<readers, pc, raised, parse_args, parse_locals>>

-----------------------------------------------------------------------------
(* stringify_boolean, lines 309-345, domain=None and func=str *)

\* str(leaf): the token the leaf was made of
LeafStr(node) == node.args[1]

RECURSIVE _internal_stringify_boolean(_)
\* lines 319-345: the strings handed to visit, in order
_internal_stringify_boolean(node) ==
    LET RECURSIVE Each(_)
        Each(iterable) ==
            IF iterable = <<>> THEN <<>>
            ELSE _internal_stringify_boolean(Head(iterable)) \o Each(Tail(iterable))
    IN  IF node.kind = "group" /\ node.cls = "OrRestriction"
        THEN << <<"|", "|", " ", "(">> >> \o Each(node.restrictions) \o << <<")">> >>
        ELSE IF node.kind = "group" /\ node.cls = "AndRestriction"
        THEN << <<"(">> >> \o Each(node.restrictions) \o << <<")">> >>
        ELSE IF node.kind = "cond"
        THEN << (IF node.restriction.negate THEN <<"!">> ELSE <<>>)
                 \o (CHOOSE v \in node.restriction.vals : TRUE) \o <<"?", " ", "(">> >>
             \o Each(node.payload) \o << <<")">> >>
        ELSE <<LeafStr(node)>>

RECURSIVE StringifyEach(_)
\* lines 313-314
StringifyEach(restrictions) ==
    IF restrictions = <<>> THEN <<>>
    ELSE _internal_stringify_boolean(Head(restrictions)) \o StringifyEach(Tail(restrictions))

\* lines 309-317, node a DepSet
stringify_boolean(node) == Join(<<SP>>, StringifyEach(node.restrictions))

\* the installed packages the domain knows, and the domains
Pkg(name, version) ==
    [name |-> name, version |-> version,
     slot |-> Tok(<<"0">>), subslot |-> IF version = 1 THEN Tok(<<"1">>) ELSE Tok(<<"2">>)]
Pkgs == {Pkg("a", v) : v \in 1..2}
Domain(installed) == [type |-> "domain", installed |-> installed]
Domains == {Domain({}), Domain(Pkgs)}

\* node.slot_operator of an atom: "=" for a token that ends in ":="
slot_operator(node) ==
    LET t == node.args[1]
    IN  IF Len(t) > 2 /\ t[Len(t) - 1] = ":" /\ t[Len(t)] = "="
        THEN "=" ELSE "None"

\* domain.all_livefs_repos.itermatch(node): the installed packages of the
\* atom's name
itermatch(domain, node) == {pkg \in domain.installed : pkg.name = node.args[1][1]}

\* max(sorted(pkgs)), pkgs not empty
MaxPkg(pkgs) == CHOOSE pkg \in pkgs : \A other \in pkgs : other.version <= pkg.version

\* the leaf is handed the package's fields and its own token as well
SetSlotAndArgs(node, pkg) ==
    [node EXCEPT !.slot = pkg.slot, !.subslot = pkg.subslot, !.args = <<<<pkg.name>>>>]

\* lines 339-340
SetSlot(node, pkg) == [node EXCEPT !.slot = pkg.slot, !.subslot = pkg.subslot]

RECURSIVE SlotsSet(_, _, _, _)
\* lines 319-345 with a domain: the nodes as the walk leaves them, in the
\* order of the walk; ok turns false where max() of no package raises, and
\* the nodes after that are not reached
SlotsSet(nodes, is_atom, domain, ok) ==
    IF nodes = <<>> \/ ~ok THEN [nodes |-> nodes, ok |-> ok]
    ELSE LET node == Head(nodes)
             first ==
                IF node.kind = "group"
                THEN LET in == SlotsSet(node.restrictions, is_atom, domain, ok)
                     IN  [node |-> [node EXCEPT !.restrictions = in.nodes], ok |-> in.ok]
                ELSE IF node.kind = "cond"
                THEN LET in == SlotsSet(node.payload, is_atom, domain, ok)
                     IN  [node |-> [node EXCEPT !.payload = in.nodes], ok |-> in.ok]
                ELSE IF is_atom /\ slot_operator(node) = "="
                THEN IF itermatch(domain, node) = {}
                     THEN [node |-> node, ok |-> FALSE]
                     ELSE [node |-> SetSlot(node, MaxPkg(itermatch(domain, node))),
                           ok |-> TRUE]
                ELSE [node |-> node, ok |-> TRUE]
             rest == SlotsSet(Tail(nodes), is_atom, domain, first.ok)
         IN  [nodes |-> <<first.node>> \o rest.nodes, ok |-> rest.ok]

\* stringify_boolean(heap[i], domain=domain): with domain=None nothing is
\* written; with a domain the leaves reached are written to
StringifyBoolean(i, domain) ==
    /\ pc = "done" /\ i \in 1..Len(heap)
    /\ heap' = IF domain = None THEN heap
               ELSE [heap EXCEPT ![i].restrictions =
                        SlotsSet(@, heap[i].element_class = "atom", domain, TRUE).nodes]
    /\ UNCHANGED <<evaluated, seen, readers, pc, raised, parse_args, parse_locals>>

-----------------------------------------------------------------------------

Next ==
    \/ Parse
    \/ \E i \in 1..2 : NodeConds(i)
    \/ \E i \in 1..2 : HasConditionals(i)
    \/ \E i \in 1..2 : KnownConditionals(i)
    \/ \E i \in 1..2, cond_dict \in CondDicts, tristate_filter \in TristateFilters :
          EvaluateDepset(i, cond_dict, tristate_filter)
    \/ \E i \in 1..2, domain \in {None} \cup Domains : StringifyBoolean(i, domain)

Spec == Init /\ [][Next]_vars

\* the inputs of the parses whose tree the threads read
RaceCalls == NestedCalls \cup FailingCalls \cup CallsUpTo(MaxTokens - 1, {"canonical"}, {"atom"})

RaceInit == InitWith(RaceCalls)

RaceNext ==
    \/ Parse
    \/ \E t \in Threads : ReaderCall(t)
    \/ \E t \in Threads : ReaderNodeConds(t)
    \/ \E t \in Threads : ReaderKnownConditionals(t)

\* parse, then the threads reading the views of the parsed tree in any
\* interleaving of their steps
RaceSpec == RaceInit /\ [][RaceNext]_vars

-----------------------------------------------------------------------------
(* Properties *)

Objects == 1..Len(heap)

RECURSIVE HasConditionalNode(_)
\* some node of the sequence, at any depth, is a Conditional
HasConditionalNode(nodes) ==
    \E i \in 1..Len(nodes) :
        \/ nodes[i].kind = "cond"
        \/ nodes[i].kind = "group" /\ HasConditionalNode(nodes[i].restrictions)

RECURSIVE UnconditionalLeaves(_)
\* the leaves with an occurrence under no Conditional node
UnconditionalLeaves(nodes) ==
    UNION {IF nodes[i].kind = "leaf" THEN {nodes[i]}
           ELSE IF nodes[i].kind = "group" THEN UnconditionalLeaves(nodes[i].restrictions)
           ELSE {} : i \in 1..Len(nodes)}

RECURSIVE AllLeaves(_)
AllLeaves(nodes) ==
    UNION {IF nodes[i].kind = "leaf" THEN {nodes[i]}
           ELSE IF nodes[i].kind = "group" THEN AllLeaves(nodes[i].restrictions)
           ELSE AllLeaves(nodes[i].payload) : i \in 1..Len(nodes)}

RECURSIVE GuardedLeaves(_)
\* the leaves with an occurrence under some Conditional node
GuardedLeaves(nodes) ==
    UNION {IF nodes[i].kind = "leaf" THEN {}
           ELSE IF nodes[i].kind = "group" THEN GuardedLeaves(nodes[i].restrictions)
           ELSE AllLeaves(nodes[i].payload) : i \in 1..Len(nodes)}

\* the input of the call as its tokens in canonical spacing
InputIs(ws) == dep_str = Spaced(ws, "canonical")

DefaultCall == operators = DefaultOperators /\ ~allow_src_uri_file_renames

\* C1: whatever was read before, evaluate_depset returns a tree with no
\* Conditional node at any depth and with the element_class of the tree it
\* was called on.
C1_EvaluateLeavesNoConditional ==
    evaluated # None =>
        /\ ~HasConditionalNode(heap[evaluated.ret].restrictions)
        /\ heap[evaluated.ret].element_class = heap[evaluated.self].element_class

\* C2: in every state of a tree, has_conditionals is true exactly when the
\* node_conds mapping of the tree is non-empty.
C2_HasConditionalsIffNodeConds ==
    pc = "done" =>
        \A i \in Objects :
            has_conditionals(heap[i]) <=> (DOMAIN node_conds_of(heap[i]) # {})

\* no leading or trailing blank and no two blanks in a row
Canonical(s) ==
    /\ s # <<>> => s[1] # SP /\ s[Len(s)] # SP
    /\ \A i \in 1..(Len(s) - 1) : ~(s[i] = SP /\ s[i + 1] = SP)

RECURSIVE DegenerateFrom(_, _, _)
\* some "(" or "|| (" group of the tokens ws[i..] holds exactly one item; open
\* is the stack of the groups open at i: whether an operator opened it, and the
\* number of items seen in it
DegenerateFrom(ws, i, open) ==
    IF i > Len(ws) THEN FALSE
    ELSE IF ws[i] = LPAREN
    THEN DegenerateFrom(ws, i + 1,
            Append(open, [op |-> ~(i > 1 /\ Last(ws[i - 1]) = "?"), n |-> 0]))
    ELSE IF ws[i] = RPAREN
    THEN IF open = <<>> THEN FALSE
         ELSE IF Last(open).op /\ Last(open).n = 1 THEN TRUE
         ELSE IF Len(open) = 1 THEN DegenerateFrom(ws, i + 1, <<>>)
         ELSE DegenerateFrom(ws, i + 1,
                 [Front(open) EXCEPT ![Len(open) - 1].n = @ + 1])
    ELSE IF ws[i] = OROP \/ Last(ws[i]) = "?" THEN DegenerateFrom(ws, i + 1, open)
    ELSE IF open = <<>> THEN DegenerateFrom(ws, i + 1, open)
    ELSE DegenerateFrom(ws, i + 1, [open EXCEPT ![Len(open)].n = @ + 1])

HasDegenerateGroup(ws) == DegenerateFrom(ws, 1, <<>>)

\* C3: a valid, canonically spaced input without a one-child "(" or "|| ("
\* group, parsed with the default arguments, is what stringify_boolean makes of
\* the parsed tree.
C3_RoundTrip ==
    (/\ pc = "done"
     /\ DefaultCall
     /\ Canonical(dep_str)
     /\ ~HasDegenerateGroup(Split(dep_str)))
    => stringify_boolean(heap[1]) = dep_str

\* a round trip through an OR group under a negated conditional
C3_Witness ==
    /\ pc = "done"
    /\ InputIs(<<NotCondX, LPAREN, OROP, LPAREN, LeafA, LeafA, RPAREN, RPAREN>>)
    /\ DefaultCall
    /\ ~HasDegenerateGroup(Split(dep_str))
    /\ stringify_boolean(heap[1]) = dep_str

\* C4: a leaf with an occurrence under no Conditional is no key of node_conds,
\* also when it occurs under a Conditional elsewhere in the tree.
C4_ExclusionLaw ==
    pc = "done" =>
        \A i \in Objects :
            \A L \in UnconditionalLeaves(heap[i].restrictions) :
                L \notin DOMAIN node_conds_of(heap[i])

\* node_conds was read on a tree where a leaf is both guarded and unguarded,
\* and another leaf is a key
C4_Witness ==
    /\ pc = "done"
    /\ heap[1]._node_conds.tag = "dict"
    /\ DOMAIN heap[1]._node_conds.d # {}
    /\ UnconditionalLeaves(heap[1].restrictions) \cap GuardedLeaves(heap[1].restrictions) # {}

\* C5: the tree evaluate_depset returned, evaluated again with the same
\* arguments, is returned itself, unchanged.
C5_EvaluateIdempotent ==
    evaluated # None =>
        LET first == heap[evaluated.ret]
            again == evaluate_depset(first, evaluated.cond_dict, evaluated.tristate_filter)
        IN  again.is_self /\ again.obj = first

\* the result of evaluating a tree with conditionals was evaluated again
C5_Witness ==
    /\ evaluated # None
    /\ evaluated.self = 2
    /\ evaluated.ret = 2
    /\ HasConditionalNode(heap[1].restrictions)
    /\ heap[2].restrictions # <<>>

\* C6: evaluate_depset returns the tree's nodes with every Conditional replaced
\* by its evaluated children when its flag is outside a given tristate filter
\* or else when (flag in environment) differs from its negation, and dropped
\* otherwise; groups keep their class, leaves are kept.
C6_EvaluationRule ==
    evaluated # None =>
        heap[evaluated.ret].restrictions =
            evaluate_conditionals(heap[evaluated.self].restrictions,
                                  evaluated.cond_dict, evaluated.tristate_filter)

\* the node the close rule of C7 gives for a closed frame
C7_Closed(tag, children) ==
    IF tag \in DOMAIN operators
    THEN IF Len(children) = 1 THEN children[1]
         ELSE [kind |-> "group", cls |-> operators[tag], restrictions |-> children]
    ELSE LET neg == tag[1] = "!"
             flag == CHOOSE f \in {SubSeq(tag, a, b) : a \in 1..(Len(tag) + 1), b \in 0..Len(tag)} :
                        tag = (IF neg THEN <<"!">> ELSE <<>>) \o f \o <<"?">>
         IN  [kind |-> "cond", attr |-> "use",
              restriction |-> [cls |-> "ContainmentMatch", vals |-> {flag}, negate |-> neg],
              payload |-> children]

C7_CloseStep ==
    (pc = "loop" /\ words # <<>> /\ Head(words) = RPAREN /\ pc' = "loop")
    => LET n == Len(depsets)
       IN  /\ Len(depsets') = n - 1
           /\ SubSeq(depsets', 1, n - 2) = SubSeq(depsets, 1, n - 2)
           /\ depsets'[n - 1] =
                 Append(depsets[n - 1], C7_Closed(Last(raw_conditionals), depsets[n]))
           /\ raw_conditionals' = Front(raw_conditionals)

C7_Examples ==
    (/\ pc = "done"
     /\ DefaultCall
     /\ \/ InputIs(<<LPAREN, LeafA, RPAREN>>)
        \/ InputIs(<<OROP, LPAREN, LeafA, RPAREN>>))
    => heap[1].restrictions = <<Leaf(<<LeafA>>)>>

\* C7: a ")" hands the parent frame the only child of an operator frame
\* unwrapped, one group of the operator for several children, and one
\* Conditional (flag without "?" and "!", negated iff "!" leads) for a
\* conditional frame; "( a )" and "|| ( a )" parse to the leaf a.
C7_CloseRule == [][C7_CloseStep]_vars /\ []C7_Examples

\* "!x? ( b ) || ( a )" after its last ")": a negated Conditional, then the
\* only child of the OR frame, unwrapped
C7_Witness ==
    /\ pc = "loop"
    /\ k = Tok(RPAREN)
    /\ depsets = << <<Conditional("use", ContainmentMatch(Flag, TRUE), <<Leaf(<<LeafB>>)>>),
                     Leaf(<<LeafA>>)>> >>

\* C8: a ")" met with no child in the innermost frame, or with no open frame,
\* ends parse with a ParseError that carries dep_str, and no tree exists.
C8_Step ==
    (/\ pc = "loop" /\ words # <<>> /\ Head(words) = RPAREN
     /\ (Last(depsets) = <<>> \/ raw_conditionals = <<>>))
    => /\ pc' = "raised"
       /\ raised'.type = "ParseError"
       /\ raised'.dep_str = dep_str
       /\ heap' = <<>>

C8_EmptyOrUnmatchedClose == [][C8_Step]_vars /\ [](pc = "raised" => heap = <<>>)

\* "a )" was rejected at its ")"
C8_Witness ==
    /\ pc = "raised"
    /\ k = Tok(RPAREN)
    /\ raw_conditionals = <<>>
    /\ depsets = << <<Leaf(<<LeafA>>)>> >>
    /\ raised.type = "ParseError"
    /\ raised.dep_str = dep_str

\* C9: a conditional tag or operator key that is the last token, or is followed
\* by a token other than "(", ends parse with a ParseError that carries dep_str
\* and the offending token.
C9_Step ==
    (/\ pc = "loop" /\ words # <<>>
     /\ Head(words) \notin {LPAREN, RPAREN}
     /\ (Last(Head(words)) = "?" \/ Head(words) \in DOMAIN operators)
     /\ (Len(words) = 1 \/ words[2] # LPAREN))
    => /\ pc' = "raised"
       /\ raised'.type = "ParseError"
       /\ raised'.dep_str = dep_str
       /\ raised'.token = Tok(IF Len(words) = 1 THEN Head(words) ELSE words[2])

C9_TagWithoutParen == [][C9_Step]_vars

\* a token with a "|" in it that is not "||"
IllegalBar(t) == InStr("|", t) /\ t # OROP

\* C10: an input with a token that has a "|" in it and is not "||" is rejected
\* with a ParseError (here: parsed with the default arguments for a class).
C10_BarRejected ==
    (/\ pc \in {"done", "raised"}
     /\ DefaultCall
     /\ IsType(element_class)
     /\ \E i \in 1..Len(Split(dep_str)) : IllegalBar(Split(dep_str)[i]))
    => pc = "raised" /\ raised.type = "ParseError"

\* the "(" and ")" among the tokens ws
CountOf(t, ws) == Cardinality({i \in 1..Len(ws) : ws[i] = t})

C11_EndStep ==
    /\ (pc = "loop" /\ words = <<>> /\ Len(depsets) > 1)
       => /\ pc' = "raised"
          /\ raised'.type = "ParseError"
          /\ raised'.dep_str = dep_str
          /\ heap' = <<>>
    /\ (pc = "loop" /\ pc' = "done")
       => /\ Len(depsets) = 1
          /\ Len(heap') = 1
          /\ heap'[1].restrictions = depsets[1]

C11_TreeOnlyFromRoot ==
    pc = "done" =>
        /\ Len(depsets) = 1
        /\ raw_conditionals = <<>>
        /\ ~allow_src_uri_file_renames =>
               CountOf(LPAREN, Split(dep_str)) = CountOf(RPAREN, Split(dep_str))

\* C11: when the tokens are used up and a frame other than the root is still
\* open, parse ends with a ParseError that carries dep_str; a tree is returned
\* only when the root frame alone is left (and then, without the rename
\* extension, the input has as many ")" as "(").
C11_OpenFrameAtEnd == [][C11_EndStep]_vars /\ []C11_TreeOnlyFromRoot

\* "x? ( a" ran out of tokens with the frame of x? open
C11_Witness ==
    /\ pc = "raised"
    /\ words = <<>>
    /\ raw_conditionals = <<CondX>>
    /\ depsets = << <<>>, <<Leaf(<<LeafA>>)>> >>
    /\ raised = ParseError(dep_str, None)

\* the step of parse that hands the token at the head of words to the leaf
\* constructor
CallsConstructor ==
    /\ pc = "loop" /\ words # <<>>
    /\ Head(words) \notin {LPAREN, RPAREN}
    /\ ~(Last(Head(words)) = "?" \/ Head(words) \in DOMAIN operators)
    /\ ~InStr("|", Head(words))
    /\ ~(allow_src_uri_file_renames /\ Len(words) = 2 /\ words[2] = ARROW)

C12_ConstructorStep ==
    (CallsConstructor /\ element_func # None /\ Head(words) = element_func.fails_on)
    => /\ pc' = "raised"
       /\ raised'.type = "ParseError"
       /\ raised'.dep_str = dep_str
       /\ raised'.cause = element_func.raises

C12_ParseErrorOnly ==
    (pc = "raised" /\ IsType(element_class))
    => raised.type = "ParseError" /\ raised.dep_str = dep_str

\* C12: a parse of any string, with any operator map and leaf constructor, that
\* does not return a tree ends with a ParseError carrying dep_str; and when the
\* leaf constructor raises on a token, whatever it raises, parse ends with a
\* ParseError whose cause is what the constructor raised.
C12_SingleErrorKind == [][C12_ConstructorStep]_vars /\ []C12_ParseErrorOnly

\* the step builds a new DepSet in place of object 2
NewResult ==
    /\ pc = "done"
    /\ has_conditionals(heap[1])
    /\ \E cond_dict \in CondDicts, tristate_filter \in TristateFilters :
          EvaluateDepset(1, cond_dict, tristate_filter)

Views == {"has_conditionals", "node_conds", "known_conditionals"}

C13_Step ==
    \A i \in 1..Len(seen) :
        \/ \A v \in Views :
              seen[i][v] # None => seen'[i][v] = seen[i][v]
        \/ i = 2 /\ NewResult

\* C13: whatever is read or evaluated in between, a read of has_conditionals,
\* node_conds or known_conditionals of a tree returns what the read of that
\* view of that tree before it returned.
C13_ViewsNeverChange == [][C13_Step]_vars

\* the tree as parse returned it
Parsed == DepSet(depsets[1], element_class, PyBool(node_conds), None)

C14_Slots ==
    pc = "done" =>
        /\ heap[1]._node_conds \in {Parsed._node_conds, NodeCondsSlot(Parsed)}
        /\ heap[1]._known_conditionals \in {None, FrozenSet(known_conditionals_of(Parsed))}
        /\ heap[1].restrictions = Parsed.restrictions

C14_Returns ==
    \A t \in Threads :
        readers[t].pc = "returned" =>
            \/ readers[t].ret = Returned(NodeCondsSlot(Parsed))
            \/ readers[t].ret = Returned(FrozenSet(known_conditionals_of(Parsed)))

C14_Final ==
    (\A t \in Threads : readers[t].pc = "returned") =>
        \A t \in Threads :
            \/ readers[t].ret.v = heap[1]._node_conds
            \/ readers[t].ret.v = heap[1]._known_conditionals
            \/ /\ Parsed._node_conds = PyBool(FALSE)
               /\ readers[t].ret.v = FrozenSet({})

\* C14: with two threads reading node_conds or known_conditionals of a tree
\* for the first time, in any interleaving, each slot holds at every moment
\* either what parse left in it or the complete value one read alone computes;
\* every thread is returned that complete value, and it is what stays cached.
C14_RacingFirstReads == C14_Slots /\ C14_Returns /\ C14_Final

\* both threads computed the dict of "x? ( a b ) a" and stored it, one after
\* the other
C14_Witness ==
    /\ pc = "done"
    /\ InputIs(<<CondX, LPAREN, LeafA, LeafB, RPAREN, LeafA>>)
    /\ readers[1].pc = "nc270"
    /\ readers[2].pc = "returned"
    /\ readers[2].ret = Returned(heap[1]._node_conds)
    /\ readers[1].nc = heap[1]._node_conds.d
    /\ DOMAIN readers[1].nc = {Leaf(<<LeafB>>)}

RECURSIVE Unlocked(_)
\* the nodes with the slot and subslot of every leaf of slot operator "=" blank
Unlocked(nodes) ==
    [i \in 1..Len(nodes) |->
        IF nodes[i].kind = "group"
        THEN [nodes[i] EXCEPT !.restrictions = Unlocked(@)]
        ELSE IF nodes[i].kind = "cond"
        THEN [nodes[i] EXCEPT !.payload = Unlocked(@)]
        ELSE IF slot_operator(nodes[i]) = "="
        THEN [nodes[i] EXCEPT !.slot = None, !.subslot = None]
        ELSE nodes[i]]

\* the step is a stringify_boolean with a domain
WithDomain == \E i \in 1..2, domain \in Domains : StringifyBoolean(i, domain)

\* the objects of this state that are the same objects after the step
Kept == {i \in 1..Len(heap) : pc = "done" /\ ~(i = 2 /\ heap'[i] # heap[i] /\ NewResult)}

C15_OriginalStep ==
    \A i \in Kept :
      heap'[i] # heap[i] =>
        /\ heap'[i].restrictions = heap[i].restrictions
        /\ stringify_boolean(heap'[i]) = stringify_boolean(heap[i])

\* C15 as stated: no call of evaluate_depset, node_conds, known_conditionals
\* or stringify_boolean, with or without a domain, changes the root sequence,
\* a node or a leaf of a tree, or the text its default stringify gives.
C15_TreeNeverWritten == [][C15_OriginalStep]_vars

C15_AmendedStep ==
    \A i \in Kept :
      heap'[i] # heap[i] =>
        /\ Unlocked(heap'[i].restrictions) = Unlocked(heap[i].restrictions)
        /\ heap'[i].element_class = heap[i].element_class
        /\ ~WithDomain =>
              /\ heap'[i].restrictions = heap[i].restrictions
              /\ stringify_boolean(heap'[i]) = stringify_boolean(heap[i])

\* C15 amended: evaluate_depset, node_conds, known_conditionals and
\* stringify_boolean without a domain change no root sequence, node or leaf
\* of a tree and not the text of its default stringify; stringify_boolean
\* with a domain changes nothing but the slot and subslot of leaves whose
\* slot operator is "=".
C15_OnlySlotsWritten == [][C15_AmendedStep]_vars

\* "a:= b:=" after a stringify with a domain that knows a and not b: a has
\* its slot, b was not reached
C15_Witness ==
    /\ pc = "done"
    /\ InputIs(<<SlotA, SlotB>>)
    /\ heap[1].restrictions =
          <<SetSlot(Leaf(<<SlotA>>), Pkg("a", 2)), Leaf(<<SlotB>>)>>

RECURSIVE NoEmptyNode(_)
\* every Group and every Conditional among the nodes, at any depth, has a child
NoEmptyNode(nodes) ==
    \A i \in 1..Len(nodes) :
        \/ nodes[i].kind = "leaf"
        \/ /\ nodes[i].kind = "group"
           /\ nodes[i].restrictions # <<>>
           /\ NoEmptyNode(nodes[i].restrictions)
        \/ /\ nodes[i].kind = "cond"
           /\ nodes[i].payload # <<>>
           /\ NoEmptyNode(nodes[i].payload)

RECURSIVE Occurrences(_, _)
\* the leaf occurrences among the nodes, depth first and left to right, each
\* with the conditions of the Conditional nodes above it, outermost first
Occurrences(nodes, above) ==
    IF nodes = <<>> THEN <<>>
    ELSE LET n == Head(nodes)
         IN  (IF n.kind = "leaf" THEN << <<n, above>> >>
              ELSE IF n.kind = "group" THEN Occurrences(n.restrictions, above)
              ELSE Occurrences(n.payload, Append(above, n.restriction)))
             \o Occurrences(Tail(nodes), above)

\* the entries C17 names for leaf L: one for each occurrence, in order
C17_Entries(nodes, L) ==
    LET Of(o) == o[1] = L
        occs == SelectSeq(Occurrences(nodes, <<>>), Of)
    IN  [j \in 1..Len(occs) |->
            IF Len(occs[j][2]) = 1 THEN occs[j][2][1]
            ELSE [cls |-> "AndRestriction", restrictions |-> occs[j][2]]]

\* C17: for a tree no stringify with a domain has written to, node_conds maps
\* every leaf that has no occurrence outside all Conditionals to one entry for
\* each of its occurrences, in depth-first order: the condition of the one
\* Conditional above the occurrence, or the AND of the conditions of all the
\* Conditionals above it, outermost first.
C17_NodeCondsEntries ==
    pc = "done" =>
        \A i \in Objects :
            LET tree == heap[i].restrictions
            IN  tree = Unlocked(tree) =>
                    \A L \in AllLeaves(tree) \ UnconditionalLeaves(tree) :
                        /\ L \in DOMAIN node_conds_of(heap[i])
                        /\ node_conds_of(heap[i])[L] = C17_Entries(tree, L)

\* node_conds of "x? ( !x? ( a ) x? ( a ) )" was read: a has the AND of two
\* conditions for its first occurrence and of two others for its second
C17_Witness ==
    /\ pc = "done"
    /\ InputIs(<<CondX, LPAREN, NotCondX, LPAREN, LeafA, RPAREN,
                 CondX, LPAREN, LeafA, RPAREN, RPAREN>>)
    /\ heap[1]._node_conds =
          PyDict([L \in {Leaf(<<LeafA>>)} |->
                    <<ValuesAnd(<<ContainmentMatch(Flag, FALSE), ContainmentMatch(Flag, TRUE)>>),
                      ValuesAnd(<<ContainmentMatch(Flag, FALSE), ContainmentMatch(Flag, FALSE)>>)>>])

RECURSIVE FlagsOf(_)
\* the flag names of the Conditional nodes among the nodes, at any depth
FlagsOf(nodes) ==
    UNION {IF nodes[i].kind = "leaf" THEN {}
           ELSE IF nodes[i].kind = "group" THEN FlagsOf(nodes[i].restrictions)
           ELSE nodes[i].restriction.vals \cup FlagsOf(nodes[i].payload) : i \in 1..Len(nodes)}

\* C18: known_conditionals of a tree is the set of the flag names of all its
\* Conditional nodes, whatever was read before and also when the guarded
\* leaves occur unconditionally as well; it is empty for a tree without
\* Conditional nodes.
C18_KnownConditionalsExact ==
    pc = "done" =>
        \A i \in Objects :
            /\ known_conditionals_of(heap[i]) = FlagsOf(heap[i].restrictions)
            /\ seen[i].known_conditionals # None =>
                  seen[i].known_conditionals = Returned(FlagsOf(heap[i].restrictions))

\* known_conditionals of "x? ( a ) a" was read after node_conds, which is {}
C18_Witness ==
    /\ pc = "done"
    /\ InputIs(<<CondX, LPAREN, LeafA, RPAREN, LeafA>>)
    /\ heap[1]._node_conds = PyDict(<<>>)
    /\ seen[1].known_conditionals = Returned({Flag})
    /\ heap[1]._known_conditionals = FrozenSet({Flag})

\* the occurrences that have a Conditional above them
Guarded(occs) ==
    LET Under(o) == o[2] # <<>>
    IN  SelectSeq(occs, Under)

\* C19: the walk of find_cond_nodes over a tree yields every leaf occurrence
\* (in the mode that skips unguarded leaves: every guarded one) in depth-first
\* order with exactly the conditions of the Conditionals above it, outermost
\* first, so Groups leave the stack alone; it never pops the empty stack, and
\* the stack is empty when the walk ends.
C19_GuardStack ==
    pc = "done" =>
        \A i \in Objects, yield_non_conditionals \in BOOLEAN :
            LET walk == cond_nodes_walk(heap[i].restrictions, <<>>,
                                        yield_non_conditionals, <<>>)
                occs == Occurrences(heap[i].restrictions, <<>>)
            IN  /\ walk.raised = None
                /\ walk.conditions_stack = <<>>
                /\ walk.out = IF yield_non_conditionals THEN occs ELSE Guarded(occs)

\* node_conds of "x? ( || ( a a ) !x? ( a ) ) " was computed by the walk: a
\* Group and a Conditional under a Conditional
C19_Witness ==
    /\ pc = "done"
    /\ InputIs(<<CondX, LPAREN, OROP, LPAREN, LeafA, LeafA, RPAREN,
                 NotCondX, LPAREN, LeafA, RPAREN, RPAREN>>)
    /\ heap[1]._node_conds.tag = "dict"
    /\ Len(heap[1]._node_conds.d[Leaf(<<LeafA>>)]) = 3

\* the loop was set up: parse is past line 109
InLoop == pc # "start" /\ raised # ValueError

C20_Frames == InLoop => Len(depsets) = Len(raw_conditionals) + 1

C20_CloseStep ==
    (pc = "loop" /\ words # <<>> /\ Head(words) = RPAREN)
    => /\ raw_conditionals # <<>> => Len(depsets) >= 2
       /\ raw_conditionals = <<>> =>
             /\ pc' = "raised"
             /\ raised' = ParseErrorFrom(dep_str, ParseError(dep_str, None))
       /\ pc' = "raised" => raised' # IndexError \/ Last(raw_conditionals) = <<>>

\* C20: once the loop is set up and after every token, there is one frame
\* more than there are open tags; so at a ")" with an open tag the parent
\* frame exists, and a ")" with no open tag is refused by the test of line
\* 116 with a ParseError, never by an IndexError of a frame access.
C20_StackInvariant == []C20_Frames /\ [][C20_CloseStep]_vars

\* inside "x? ( || ( a": two tags open, three frames
C20_Witness ==
    /\ pc = "loop"
    /\ raw_conditionals = <<CondX, OROP>>
    /\ depsets = << <<>>, <<>>, <<Leaf(<<LeafA>>)>> >>

====
